---- MODULE Spec2Model ----
(***************************************************************************)
(* Model of the Toradex Oak HID base functions (src/rig/OakHidBase.cpp):   *)
(* the device session (openDevice, closeDevice), the request/reply         *)
(* protocol engine (sendReportAndWaitForReply over readFeatureReport and   *)
(* sendFeatureReport), the user-name queries and the two aggregates        *)
(* getDeviceInfo and getChannelInfo.                                       *)
(*                                                                         *)
(* One caller drives one device descriptor.  Every ioctl/open/close issued *)
(* by the code is one step; the kernel's answer to it (return value and    *)
(* data) is chosen nondeterministically.                                   *)
(***************************************************************************)
EXTENDS Integers, Sequences, FiniteSets, TLC

\* ------------------------------------------------------------------ bounds
\* Saturation value of the per-transaction operation counters.
MaxCount == 3

\* Longest text handed to putStringInReport.
MaxStrLen == 22

\* Longest channel name handed to getFieldUnit.
MaxNameLen == 4

\* Most events one read of the interrupt stream delivers.
MaxEvents == 3

\* Channel indexes the caller passes.
ChannelIndexes == {0, 1}

\* ------------------------------------------------------- program constants
kFeatureReportSize == 32

kToradexVendorID == "Toradex"

eOakStatusOK == "OK"
eOakStatusErrorOpeningFile == "ErrorOpeningFile"
eOakStatusInvalidDeviceType == "InvalidDeviceType"
eOakStatusInternalError == "InternalError"
eOakStatusInvalidStringDescriptorIndex == "InvalidStringDescriptorIndex"
eOakStatusReadError == "ReadError"
eOakStatusWriteError == "WriteError"

\* Value of a status variable that holds no return value yet.
NoStatus == "none"

\* ------------------------------------------------------------- environment
\* Vendor identifiers a descriptor query can report.
Vendors == {"Toradex", "Other"}

\* Payloads (bytes 1..) a device puts in a feature report: a short name and
\* a payload without any NUL up to the end of the report.
LongPayload == [i \in 1..(kFeatureReportSize - 1) |-> 67]

DevicePayloads == {<<65, 66>>, LongPayload}

\* Values of usage 0 (the readiness byte): ready, busy, and ready as a
\* sign-extended 32-bit usage value.
Usage0Values == {255, 0, -1}

MkValues(b0, p) ==
  [i \in 0..(kFeatureReportSize - 1) |->
     IF i = 0 THEN b0 ELSE IF i <= Len(p) THEN p[i] ELSE 0]

\* The 32 usage values HIDIOCGUSAGES can deliver.
DeviceValues == {MkValues(b0, p) : b0 \in Usage0Values, p \in DevicePayloads}

\* Names the string-descriptor table can hold for a channel.
ChannelNames == {<<"T", "[", "C", "]">>, <<"N">>, <<"]", "[">>}

\* Field descriptors HIDIOCGFIELDINFO can deliver.
FieldInfos ==
  { [physical_minimum |-> -10, physical_maximum |-> 300, unit_exponent |-> 15, unit |-> 1],
    [physical_minimum |-> 0, physical_maximum |-> 255, unit_exponent |-> 0, unit |-> 2] }

\* --------------------------------------------------------------- variables
VARIABLES
  fdOpen,        \* the device descriptor is open in the kernel
  tempReport,    \* static OakFeatureReport of sendReportAndWaitForReply
  call,          \* API function the caller is in ("none" between calls)
  pc,            \* position in that function
  status,        \* its return value, once pc = "done"
  channelIndex,  \* argument channelIndex
  persistent,    \* argument persistent of the running user-name query
  upc,           \* position in getUserDeviceName / getUserChannelName
  ustatus,       \* return value of the user-name query
  outName,       \* out-parameter string of the user-name query
  tpc,           \* position in sendReportAndWaitForReply
  tstatus,       \* return value of sendReportAndWaitForReply
  report,        \* the caller's OakFeatureReport
  h,             \* what the running transaction did on the device so far
  queries,       \* sub-queries the running aggregate issued, with outcomes
  dev,           \* what openDevice / getFieldInfo saw of the device
  outInfo,       \* out-parameter DeviceInfo / ChannelInfo of the aggregate
  fcall,         \* a codec / decoder / reader function applied to drawn inputs
  thr            \* two threads, each in its own sendReportAndWaitForReply

vars == <<fdOpen, tempReport, call, pc, status, channelIndex, persistent,
          upc, ustatus, outName, tpc, tstatus, report, h, queries, dev, outInfo,
          fcall, thr>>

\* The state of the single caller, apart from the static tempReport.
single == <<fdOpen, call, pc, status, channelIndex, persistent, upc, ustatus,
            outName, tpc, tstatus, report, h, queries, dev, outInfo>>

\* What the single caller's steps leave alone.
apart == <<fcall, thr>>

session == <<call, pc, status, channelIndex, queries, dev, outInfo>>
userq == <<persistent, upc, ustatus, outName>>
txn == <<tpc, tstatus, report, h, tempReport>>

\* ----------------------------------------------------------------- helpers
\* No function is applied on its own; no second thread exists.
NoCall == [fn |-> "none"]

NoThreads == <<>>

ZeroReport == [i \in 0..(kFeatureReportSize - 1) |-> 0]

\* (unsigned char) of a 32-bit usage value.
ToByte(v) == v % 256

\* The copy loop stopping one value short of the report size.
FromUsages_OneShort(v) ==
  [i \in 0..(kFeatureReportSize - 1) |->
     IF i < kFeatureReportSize - 1 THEN ToByte(v[i]) ELSE 0]

\* readFeatureReport, lines 419-420: the copy of the usage values.
FromUsages(v) == [i \in 0..(kFeatureReportSize - 1) |-> ToByte(v[i])]

\* Return values an ioctl can give: any call fails on a closed descriptor.
IoctlRet == IF fdOpen THEN {0, -1} ELSE {-1}

Inc(n) == IF n < MaxCount THEN n + 1 ELSE n

NoHistory ==
  [rdyReads |-> 0, sends |-> 0, commits |-> 0, rplReads |-> 0,
   readyOk |-> FALSE, sendOk |-> FALSE, replyOk |-> FALSE,
   readFailed |-> FALSE, sendFailed |-> FALSE, opsAfterFail |-> FALSE,
   lastRead |-> "none", allReady |-> TRUE, lastReply |-> ZeroReport,
   command |-> ZeroReport, replied |-> FALSE]

\* One more device operation of the transaction was issued.
Issued(hh) == [hh EXCEPT !.opsAfterFail = @ \/ hh.readFailed \/ hh.sendFailed]

\* getStringFromReport: byte 21 is forced to NUL, then the C string at
\* offset 1 is taken.
RECURSIVE CStringAt(_, _)
CStringAt(buf, i) ==
  IF i >= kFeatureReportSize \/ buf[i] = 0 THEN <<>>
  ELSE <<buf[i]>> \o CStringAt(buf, i + 1)

\* getStringFromReport without the terminator it forces at byte 21.
getStringFromReport_NoTerminator(buf) ==
  [status |-> eOakStatusOK, report |-> buf, outString |-> CStringAt(buf, 1)]

getStringFromReport(buf) ==
  LET b == [buf EXCEPT ![21] = 0]
  IN [status |-> eOakStatusOK, report |-> b, outString |-> CStringAt(b, 1)]

\* The command report of getUserDeviceName / getUserChannelName.
UserNameCommand(p, ch) ==
  [i \in 0..(kFeatureReportSize - 1) |->
     IF i = 0 THEN 1
     ELSE IF i = 1 THEN (IF p THEN 1 ELSE 0)
     ELSE IF i = 2 THEN 21
     ELSE IF i = 3 THEN ch % 256
     ELSE 0]

\* --------------------------------------- sendReportAndWaitForReply (449-470)
\* The polling loop without its readiness test: any successful read ends it.
PollNext_NoReadyTest(st, buf, again, exit) ==
  IF eOakStatusOK # st THEN [pc |-> "ret", status |-> st]
  ELSE [pc |-> exit, status |-> st]

\* The polling loop reading again after a read that failed.
PollNext_RetryFailedRead(st, buf, again, exit) ==
  IF eOakStatusOK # st THEN [pc |-> again, status |-> st]
  ELSE IF 255 # buf[0] THEN [pc |-> again, status |-> st]
  ELSE [pc |-> exit, status |-> st]

\* The polling loop giving up, with the read's status, after a read that
\* found the device not ready.
PollNext_GiveUp(st, buf, again, exit) ==
  IF eOakStatusOK # st THEN [pc |-> "ret", status |-> st]
  ELSE IF 255 # buf[0] THEN [pc |-> "ret", status |-> st]
  ELSE [pc |-> exit, status |-> st]

\* Lines 457-458 and 467-468: what follows a readFeatureReport in a polling
\* loop: return its error, poll again, or leave the loop.
PollNext(st, buf, again, exit) ==
  IF eOakStatusOK # st THEN [pc |-> "ret", status |-> st]
  ELSE IF 255 # buf[0] THEN [pc |-> again, status |-> st]
  ELSE [pc |-> exit, status |-> st]

\* The send whose status is not looked at.
SendNext_StatusIgnored(st, next) == [pc |-> next, status |-> st]

\* Line 461 (and 389): what follows the first ioctl of sendFeatureReport.
SendNext(st, next) ==
  IF eOakStatusOK # st THEN [pc |-> "ret", status |-> st]
  ELSE [pc |-> next, status |-> st]

\* Entry of sendReportAndWaitForReply on the caller's report rep.
TxnBegin(rep) ==
  /\ tpc' = "rdy_GREPORT"
  /\ tstatus' = NoStatus
  /\ report' = rep
  /\ h' = [NoHistory EXCEPT !.command = rep]
  /\ UNCHANGED tempReport

\* readFeatureReport, first ioctl (line 411), in the WaitReady loop.
WaitReady_HIDIOCGREPORT ==
  /\ tpc = "rdy_GREPORT"
  /\ \E r \in IoctlRet :
       LET st == IF r = -1 THEN eOakStatusReadError ELSE eOakStatusOK
           hi == [Issued(h) EXCEPT !.rdyReads = Inc(@)]
       IN IF eOakStatusOK # st
          THEN /\ tpc' = "ret"
               /\ tstatus' = st
               /\ h' = [hi EXCEPT !.readFailed = TRUE, !.lastRead = "fail",
                                  !.allReady = FALSE]
          ELSE /\ tpc' = "rdy_GUSAGES"
               /\ tstatus' = tstatus
               /\ h' = hi
  /\ UNCHANGED <<report, tempReport, fdOpen>>
  /\ UNCHANGED <<session, userq>>
  /\ UNCHANGED apart

\* The WaitReady loop reading into the caller's report, not into tempReport.
WaitReady_HIDIOCGUSAGES_IntoReport ==
  /\ tpc = "rdy_GUSAGES"
  /\ \E r \in IoctlRet, v \in DeviceValues :
       LET st == IF r = -1 THEN eOakStatusReadError ELSE eOakStatusOK
           buf == IF r = -1 THEN report ELSE FromUsages(v)
           nxt == PollNext(st, buf, "rdy_GREPORT", "snd_SUSAGES")
           hi == Issued(h)
       IN /\ report' = buf
          /\ tpc' = nxt.pc
          /\ tstatus' = nxt.status
          /\ h' = IF r = -1
                  THEN [hi EXCEPT !.readFailed = TRUE, !.lastRead = "fail",
                                  !.allReady = FALSE]
                  ELSE [hi EXCEPT !.readyOk = @ \/ (buf[0] = 255),
                                  !.lastRead = IF buf[0] = 255 THEN "ready" ELSE "notready",
                                  !.allReady = @ /\ (buf[0] = 255)]
  /\ UNCHANGED <<tempReport, fdOpen>>
  /\ UNCHANGED <<session, userq>>
  /\ UNCHANGED apart

\* readFeatureReport, second ioctl and copy (lines 418-420), then the loop
\* test of line 458, in the WaitReady loop.
WaitReady_HIDIOCGUSAGES ==
  /\ tpc = "rdy_GUSAGES"
  /\ \E r \in IoctlRet, v \in DeviceValues :
       LET st == IF r = -1 THEN eOakStatusReadError ELSE eOakStatusOK
           buf == IF r = -1 THEN tempReport ELSE FromUsages(v)
           nxt == PollNext(st, buf, "rdy_GREPORT", "snd_SUSAGES")
           hi == Issued(h)
       IN /\ tempReport' = buf
          /\ tpc' = nxt.pc
          /\ tstatus' = nxt.status
          /\ h' = IF r = -1
                  THEN [hi EXCEPT !.readFailed = TRUE, !.lastRead = "fail",
                                  !.allReady = FALSE]
                  ELSE [hi EXCEPT !.readyOk = @ \/ (buf[0] = 255),
                                  !.lastRead = IF buf[0] = 255 THEN "ready" ELSE "notready",
                                  !.allReady = @ /\ (buf[0] = 255)]
  /\ UNCHANGED <<report, fdOpen>>
  /\ UNCHANGED <<session, userq>>
  /\ UNCHANGED apart

\* sendFeatureReport, first ioctl (lines 387-389): the 32 usage values.
Send_HIDIOCSUSAGES ==
  /\ tpc = "snd_SUSAGES"
  /\ \E r \in IoctlRet :
       LET st == IF r = -1 THEN eOakStatusWriteError ELSE eOakStatusOK
           nxt == SendNext(st, "snd_SREPORT")
           hi == [Issued(h) EXCEPT !.sends = Inc(@)]
       IN /\ tpc' = nxt.pc
          /\ tstatus' = nxt.status
          /\ h' = IF r = -1
                  THEN [hi EXCEPT !.sendFailed = TRUE, !.allReady = FALSE]
                  ELSE hi
  /\ UNCHANGED <<report, tempReport, fdOpen>>
  /\ UNCHANGED <<session, userq>>
  /\ UNCHANGED apart

\* sendFeatureReport, second ioctl (line 395): the report is committed.
Send_HIDIOCSREPORT ==
  /\ tpc = "snd_SREPORT"
  /\ \E r \in IoctlRet :
       LET st == IF r = -1 THEN eOakStatusWriteError ELSE eOakStatusOK
           nxt == SendNext(st, "rpl_GREPORT")
           hi == [Issued(h) EXCEPT !.commits = Inc(@)]
       IN /\ tpc' = nxt.pc
          /\ tstatus' = nxt.status
          /\ h' = IF r = -1
                  THEN [hi EXCEPT !.sendFailed = TRUE, !.allReady = FALSE]
                  ELSE [hi EXCEPT !.sendOk = TRUE]
  /\ UNCHANGED <<report, tempReport, fdOpen>>
  /\ UNCHANGED <<session, userq>>
  /\ UNCHANGED apart

\* readFeatureReport, first ioctl (line 411), in the WaitReply loop.
WaitReply_HIDIOCGREPORT ==
  /\ tpc = "rpl_GREPORT"
  /\ \E r \in IoctlRet :
       LET st == IF r = -1 THEN eOakStatusReadError ELSE eOakStatusOK
           hi == [Issued(h) EXCEPT !.rplReads = Inc(@)]
       IN IF eOakStatusOK # st
          THEN /\ tpc' = "ret"
               /\ tstatus' = st
               /\ h' = [hi EXCEPT !.readFailed = TRUE, !.lastRead = "fail",
                                  !.allReady = FALSE]
          ELSE /\ tpc' = "rpl_GUSAGES"
               /\ tstatus' = tstatus
               /\ h' = hi
  /\ UNCHANGED <<report, tempReport, fdOpen>>
  /\ UNCHANGED <<session, userq>>
  /\ UNCHANGED apart

\* readFeatureReport, second ioctl and copy (lines 418-420) into the
\* caller's report, then the loop test of line 468, in the WaitReply loop.
WaitReply_HIDIOCGUSAGES ==
  /\ tpc = "rpl_GUSAGES"
  /\ \E r \in IoctlRet, v \in DeviceValues :
       LET st == IF r = -1 THEN eOakStatusReadError ELSE eOakStatusOK
           buf == IF r = -1 THEN report ELSE FromUsages(v)
           nxt == PollNext(st, buf, "rpl_GREPORT", "ret")
           hi == Issued(h)
       IN /\ report' = buf
          /\ tpc' = nxt.pc
          /\ tstatus' = nxt.status
          /\ h' = IF r = -1
                  THEN [hi EXCEPT !.readFailed = TRUE, !.lastRead = "fail",
                                  !.allReady = FALSE]
                  ELSE [hi EXCEPT !.replyOk = @ \/ (buf[0] = 255),
                                  !.lastRead = IF buf[0] = 255 THEN "ready" ELSE "notready",
                                  !.allReady = @ /\ (buf[0] = 255),
                                  !.lastReply = v, !.replied = TRUE]
  /\ UNCHANGED <<tempReport, fdOpen>>
  /\ UNCHANGED <<session, userq>>
  /\ UNCHANGED apart

\* The caller of a direct sendReportAndWaitForReply gets its return value.
sendReportAndWaitForReply_return ==
  /\ call = "sendReportAndWaitForReply"
  /\ pc = "txn"
  /\ tpc = "ret"
  /\ pc' = "done"
  /\ status' = tstatus
  /\ UNCHANGED apart
  /\ UNCHANGED <<call, channelIndex, queries, dev, outInfo>>
  /\ UNCHANGED <<userq, txn, fdOpen>>

\* -------------------------------------------- user-name queries (169-231)
\* Lines 171-172: the command is built and handed to the protocol engine.
getUserDeviceName_send ==
  /\ call \in {"getUserDeviceName", "getDeviceInfo"}
  /\ upc = "call"
  /\ TxnBegin(UserNameCommand(persistent, 0))
  /\ upc' = "txn"
  /\ UNCHANGED <<persistent, ustatus, outName, fdOpen>>
  /\ UNCHANGED apart
  /\ UNCHANGED session

\* Line 173: the transaction has returned; the string is taken from the
\* report and getStringFromReport's status is returned.
getUserDeviceName_return ==
  /\ call \in {"getUserDeviceName", "getDeviceInfo"}
  /\ upc = "txn"
  /\ tpc = "ret"
  /\ LET g == getStringFromReport(report)
     IN /\ report' = g.report
        /\ outName' = g.outString
        /\ ustatus' = g.status
        /\ IF call = "getUserDeviceName"
           THEN pc' = "done" /\ status' = g.status
           ELSE UNCHANGED <<pc, status>>
  /\ upc' = "ret"
  /\ tpc' = "idle"
  /\ UNCHANGED <<tstatus, h, tempReport, persistent, fdOpen>>
  /\ UNCHANGED apart
  /\ UNCHANGED <<call, channelIndex, queries, dev, outInfo>>

\* Lines 228-229.
getUserChannelName_send ==
  /\ call \in {"getUserChannelName", "getChannelInfo"}
  /\ upc = "call"
  /\ TxnBegin(UserNameCommand(persistent, channelIndex))
  /\ upc' = "txn"
  /\ UNCHANGED <<persistent, ustatus, outName, fdOpen>>
  /\ UNCHANGED apart
  /\ UNCHANGED session

\* Line 230.
getUserChannelName_return ==
  /\ call \in {"getUserChannelName", "getChannelInfo"}
  /\ upc = "txn"
  /\ tpc = "ret"
  /\ LET g == getStringFromReport(report)
     IN /\ report' = g.report
        /\ outName' = g.outString
        /\ ustatus' = g.status
        /\ IF call = "getUserChannelName"
           THEN pc' = "done" /\ status' = g.status
           ELSE UNCHANGED <<pc, status>>
  /\ upc' = "ret"
  /\ tpc' = "idle"
  /\ UNCHANGED <<tstatus, h, tempReport, persistent, fdOpen>>
  /\ UNCHANGED apart
  /\ UNCHANGED <<call, channelIndex, queries, dev, outInfo>>

\* ------------------------------------------------- device session (33-64)
NoDev == [opened |-> FALSE, initOk |-> FALSE, devinfoOk |-> FALSE,
          fieldOk |-> FALSE, vendor |-> "unset"]

\* Line 36: open(devicePath, O_RDONLY).
openDevice_open ==
  /\ call = "openDevice"
  /\ pc = "open"
  /\ \E r \in {0, -1} :
       IF r < 0
       THEN /\ pc' = "done"
            /\ status' = eOakStatusErrorOpeningFile
            /\ UNCHANGED <<fdOpen, dev>>
       ELSE /\ pc' = "initreport"
            /\ fdOpen' = TRUE
            /\ dev' = [dev EXCEPT !.opened = TRUE]
            /\ UNCHANGED status
  /\ UNCHANGED apart
  /\ UNCHANGED <<call, channelIndex, queries, outInfo>>
  /\ UNCHANGED <<userq, txn>>

\* Lines 41-45: ioctl(HIDIOCINITREPORT); the descriptor is closed on failure.
openDevice_HIDIOCINITREPORT ==
  /\ call = "openDevice"
  /\ pc = "initreport"
  /\ \E r \in IoctlRet :
       IF r < 0
       THEN /\ fdOpen' = FALSE
            /\ pc' = "done"
            /\ status' = eOakStatusInternalError
            /\ UNCHANGED dev
       ELSE /\ pc' = "devinfo"
            /\ dev' = [dev EXCEPT !.initOk = TRUE]
            /\ UNCHANGED <<fdOpen, status>>
  /\ UNCHANGED apart
  /\ UNCHANGED <<call, channelIndex, queries, outInfo>>
  /\ UNCHANGED <<userq, txn>>

\* Line 48: the vendor test on the devInfo structure.
VendorAccepted(vendor) == ~(kToradexVendorID # vendor)

\* Lines 46-53: ioctl(HIDIOCGDEVINFO), whose return value the code does not
\* look at: when it fails devInfo.vendor is an uninitialized value, any
\* vendor identifier.  Then the vendor test; closeDevice on a mismatch.
openDevice_HIDIOCGDEVINFO ==
  /\ call = "openDevice"
  /\ pc = "devinfo"
  /\ \E r \in IoctlRet, v \in Vendors :
       /\ dev' = [dev EXCEPT !.devinfoOk = (r = 0), !.vendor = v]
       /\ IF VendorAccepted(v)
          THEN /\ status' = eOakStatusOK
               /\ UNCHANGED fdOpen
          ELSE /\ fdOpen' = FALSE
               /\ status' = eOakStatusInvalidDeviceType
  /\ pc' = "done"
  /\ UNCHANGED apart
  /\ UNCHANGED <<call, channelIndex, queries, outInfo>>
  /\ UNCHANGED <<userq, txn>>

\* Line 63: close() releases an open descriptor and fails on a closed one.
closeDevice ==
  /\ call = "closeDevice"
  /\ pc = "close"
  /\ fdOpen' = FALSE
  /\ status' = IF fdOpen THEN eOakStatusOK ELSE eOakStatusInternalError
  /\ pc' = "done"
  /\ UNCHANGED apart
  /\ UNCHANGED <<call, channelIndex, queries, dev, outInfo>>
  /\ UNCHANGED <<userq, txn>>

\* ------------------------------------------------- getDeviceInfo (182-200)
NoInfo ==
  [vendorID |-> "unset", deviceName |-> "unset",
   persistentUserName |-> "unset", volatileUserName |-> "unset",
   serialNumber |-> "unset", numberOfChannels |-> "unset",
   channelName |-> "unset", isSigned |-> "unset", bitSize |-> "unset",
   unitExponent |-> "unset", unitCode |-> "unset", unit |-> "unset"]

\* One sub-query of an aggregate: the status its function returned and, for
\* a user-name query, the status of its request/reply transaction.
Query(q, st, ts) == [q |-> q, st |-> st, txn |-> ts]

\* Lines 191, 193, 195, 197: return the first status that is not OK.
ShortCircuit(st, next) ==
  IF eOakStatusOK # st THEN [pc |-> "done", status |-> st]
  ELSE [pc |-> next, status |-> st]

\* Lines 184-188: ioctl(HIDIOCGDEVINFO).
getDeviceInfo_HIDIOCGDEVINFO ==
  /\ call = "getDeviceInfo"
  /\ pc = "devinfo"
  /\ \E r \in IoctlRet, v \in Vendors :
       LET st == IF r < 0 THEN eOakStatusInternalError ELSE eOakStatusOK
           nxt == ShortCircuit(st, "name")
       IN /\ pc' = nxt.pc
          /\ status' = nxt.status
          /\ queries' = Append(queries, Query("descriptor", st, NoStatus))
          /\ outInfo' = IF r < 0 THEN outInfo ELSE [outInfo EXCEPT !.vendorID = v]
  /\ UNCHANGED apart
  /\ UNCHANGED <<call, channelIndex, dev>>
  /\ UNCHANGED <<userq, txn, fdOpen>>

\* Lines 190-192: getDeviceName (72-79), then the call of the persistent
\* getUserDeviceName.
getDeviceInfo_getDeviceName ==
  /\ call = "getDeviceInfo"
  /\ pc = "name"
  /\ \E r \in IoctlRet :
       LET st == IF r < 0 THEN eOakStatusInternalError ELSE eOakStatusOK
           nxt == ShortCircuit(st, "puser")
       IN /\ pc' = nxt.pc
          /\ status' = nxt.status
          /\ queries' = Append(queries, Query("deviceName", st, NoStatus))
          /\ outInfo' = IF r < 0 THEN outInfo ELSE [outInfo EXCEPT !.deviceName = "Oak"]
          /\ IF nxt.pc = "puser"
             THEN upc' = "call" /\ persistent' = TRUE
             ELSE UNCHANGED <<upc, persistent>>
  /\ UNCHANGED apart
  /\ UNCHANGED <<call, channelIndex, dev>>
  /\ UNCHANGED <<ustatus, outName, txn, fdOpen>>

\* Lines 192-194: the persistent getUserDeviceName has returned; then the
\* call of the volatile one.
getDeviceInfo_persistentUserDeviceName ==
  /\ call = "getDeviceInfo"
  /\ pc = "puser"
  /\ upc = "ret"
  /\ LET nxt == ShortCircuit(ustatus, "vuser")
     IN /\ pc' = nxt.pc
        /\ status' = nxt.status
        /\ IF nxt.pc = "vuser"
           THEN upc' = "call" /\ persistent' = FALSE
           ELSE upc' = "idle" /\ UNCHANGED persistent
  /\ queries' = Append(queries, Query("persistentUserName", ustatus, tstatus))
  /\ outInfo' = [outInfo EXCEPT !.persistentUserName = outName]
  /\ UNCHANGED apart
  /\ UNCHANGED <<call, channelIndex, dev>>
  /\ UNCHANGED <<ustatus, outName, txn, fdOpen>>

\* Lines 194-195: the volatile getUserDeviceName has returned.
getDeviceInfo_volatileUserDeviceName ==
  /\ call = "getDeviceInfo"
  /\ pc = "vuser"
  /\ upc = "ret"
  /\ LET nxt == ShortCircuit(ustatus, "serial")
     IN /\ pc' = nxt.pc
        /\ status' = nxt.status
  /\ upc' = "idle"
  /\ queries' = Append(queries, Query("volatileUserName", ustatus, tstatus))
  /\ outInfo' = [outInfo EXCEPT !.volatileUserName = outName]
  /\ UNCHANGED apart
  /\ UNCHANGED <<call, channelIndex, dev>>
  /\ UNCHANGED <<persistent, ustatus, outName, txn, fdOpen>>

\* Lines 196-197: getDeviceSerialNumber, getStringDescriptor(3) (90-108).
getDeviceInfo_getDeviceSerialNumber ==
  /\ call = "getDeviceInfo"
  /\ pc = "serial"
  /\ \E r \in IoctlRet :
       LET st == IF r < 0 THEN eOakStatusInvalidStringDescriptorIndex ELSE eOakStatusOK
           nxt == ShortCircuit(st, "channels")
       IN /\ pc' = nxt.pc
          /\ status' = nxt.status
          /\ queries' = Append(queries, Query("serialNumber", st, NoStatus))
          /\ outInfo' = IF r < 0 THEN outInfo ELSE [outInfo EXCEPT !.serialNumber = "SN"]
  /\ UNCHANGED apart
  /\ UNCHANGED <<call, channelIndex, dev>>
  /\ UNCHANGED <<userq, txn, fdOpen>>

\* Lines 198-199: getNumberOfChannels (118-126); its status is returned.
getDeviceInfo_getNumberOfChannels ==
  /\ call = "getDeviceInfo"
  /\ pc = "channels"
  /\ \E r \in IoctlRet :
       LET st == IF r < 0 THEN eOakStatusInternalError ELSE eOakStatusOK
       IN /\ pc' = "done"
          /\ status' = st
          /\ queries' = Append(queries, Query("numberOfChannels", st, NoStatus))
          /\ outInfo' = IF r < 0 THEN outInfo
                        ELSE [outInfo EXCEPT !.numberOfChannels = Cardinality(ChannelIndexes)]
  /\ UNCHANGED apart
  /\ UNCHANGED <<call, channelIndex, dev>>
  /\ UNCHANGED <<userq, txn, fdOpen>>

\* ---------------------------------------------- metadata decoder (260-319)
\* 32-bit and 64-bit quantities are held as two limbs, hi * 65536 + lo with
\* lo in 0..65535, so that no intermediate value leaves the checker's
\* integers.
Hi(x) == x \div 65536

Lo(x) == x % 65536

\* The mathematical difference a - b of two 32-bit ints.
Diff(a, b) ==
  IF Lo(a) - Lo(b) < 0
  THEN [hi |-> Hi(a) - Hi(b) - 1, lo |-> Lo(a) - Lo(b) + 65536]
  ELSE [hi |-> Hi(a) - Hi(b), lo |-> Lo(a) - Lo(b)]

\* The value wrapped to a 32-bit int and sign-extended.
Wrap32(d) == [hi |-> ((d.hi + 32768) % 65536) - 32768, lo |-> d.lo]

\* An unsigned 32-bit value: the mathematical value modulo 2^32.
U32(d) == [hi |-> d.hi % 65536, lo |-> d.lo]

\* The int a limb pair stands for, once it fits.
IntOf(d) == d.hi * 65536 + d.lo

\* getFieldExponent with the test > 8 for >= 8.
getFieldExponent_Above8(finfo) ==
  IF finfo.unit_exponent > 8
  THEN IntOf(Wrap32(U32(Diff(finfo.unit_exponent, 16))))
  ELSE IntOf(Wrap32(U32(Diff(finfo.unit_exponent, 0))))

\* Lines 260-263.  unit_exponent is an unsigned 32-bit field: both branches
\* are unsigned, the subtraction is modulo 2^32, and the result is converted
\* to the int the function returns.
getFieldExponent(finfo) ==
  IF finfo.unit_exponent >= 8
  THEN IntOf(Wrap32(U32(Diff(finfo.unit_exponent, 16))))
  ELSE IntOf(Wrap32(U32(Diff(finfo.unit_exponent, 0))))

\* Lines 272-275.
isFieldSigned(finfo) == finfo.physical_minimum < 0

\* Line 286: physical_maximum - physical_minimum is an int subtraction whose
\* result initializes a long long.  When the difference does not fit an int
\* the behaviour is undefined: the build can deliver the wrapped int or the
\* difference itself (subtraction carried out in 64 bits).
PhysicalRanges(finfo) ==
  LET d == Diff(finfo.physical_maximum, finfo.physical_minimum)
  IN {Wrap32(d), d}

\* Lines 287-290 on a long long physicalRange.
BitSizeOfRange(physicalRange) ==
  IF physicalRange.hi < 0 \/ (physicalRange.hi = 0 /\ physicalRange.lo <= 255) THEN 8
  ELSE IF physicalRange.hi <= 0 THEN 16
  ELSE IF physicalRange.hi <= 65535 THEN 32
  ELSE 64

\* Lines 284-291: the values getFieldBitSize can return for finfo.
getFieldBitSize(finfo) == {BitSizeOfRange(d) : d \in PhysicalRanges(finfo)}

\* std::string::rfind as the code uses it: the 0-based position of the last
\* c in name, or -1 ((signed)string::npos).
rfind(name, c) ==
  IF \E i \in 1..Len(name) : name[i] = c
  THEN (CHOOSE i \in 1..Len(name) :
          /\ name[i] = c
          /\ \A j \in (i + 1)..Len(name) : name[j] # c) - 1
  ELSE -1

\* getFieldUnit accepting a closing bracket right after the opening one.
unitOfName_EmptyUnitAccepted(name) ==
  LET begin == rfind(name, "[") + 1
      end == rfind(name, "]")
  IN IF rfind(name, "[") = -1 THEN [status |-> eOakStatusInternalError, unit |-> <<>>]
     ELSE IF end = -1 THEN [status |-> eOakStatusInternalError, unit |-> <<>>]
     ELSE IF end < begin THEN [status |-> eOakStatusInternalError, unit |-> <<>>]
     ELSE [status |-> eOakStatusOK, unit |-> SubSeq(name, begin + 1, end)]

\* Lines 311-318 of getFieldUnit: the unit between the last brackets of the
\* channel name.
unitOfName(name) ==
  LET begin == rfind(name, "[") + 1
      end == rfind(name, "]")
  IN IF rfind(name, "[") = -1 THEN [status |-> eOakStatusInternalError, unit |-> <<>>]
     ELSE IF end = -1 THEN [status |-> eOakStatusInternalError, unit |-> <<>>]
     ELSE IF end <= begin THEN [status |-> eOakStatusInternalError, unit |-> <<>>]
     ELSE [status |-> eOakStatusOK, unit |-> SubSeq(name, begin + 1, end)]

\* ------------------------------------------------ getChannelInfo (328-342)
\* Lines 330-332: getChannelName, getStringDescriptor(4 + channelIndex)
\* (90-97, 211-214); a failure is returned.  Then the call of the persistent
\* getUserChannelName.
getChannelInfo_getChannelName ==
  /\ call = "getChannelInfo"
  /\ pc = "name"
  /\ \E r \in IoctlRet, n \in ChannelNames :
       LET st == IF r < 0 THEN eOakStatusInvalidStringDescriptorIndex ELSE eOakStatusOK
           nxt == ShortCircuit(st, "puser")
       IN /\ pc' = nxt.pc
          /\ status' = nxt.status
          /\ queries' = Append(queries, Query("channelName", st, NoStatus))
          /\ outInfo' = IF r < 0 THEN outInfo ELSE [outInfo EXCEPT !.channelName = n]
          /\ IF nxt.pc = "puser"
             THEN upc' = "call" /\ persistent' = TRUE
             ELSE UNCHANGED <<upc, persistent>>
  /\ UNCHANGED apart
  /\ UNCHANGED <<call, channelIndex, dev>>
  /\ UNCHANGED <<ustatus, outName, txn, fdOpen>>

\* getChannelInfo treating a failed persistent user-name transaction as fatal.
getChannelInfo_persistentUserChannelName_Fatal ==
  /\ call = "getChannelInfo"
  /\ pc = "puser"
  /\ upc = "ret"
  /\ IF tstatus # eOakStatusOK
     THEN /\ pc' = "done"
          /\ status' = tstatus
          /\ upc' = "idle"
          /\ UNCHANGED persistent
     ELSE /\ pc' = "vuser"
          /\ upc' = "call"
          /\ persistent' = FALSE
          /\ UNCHANGED status
  /\ queries' = Append(queries, Query("persistentUserName", ustatus, tstatus))
  /\ outInfo' = [outInfo EXCEPT !.persistentUserName = outName]
  /\ UNCHANGED apart
  /\ UNCHANGED <<call, channelIndex, dev>>
  /\ UNCHANGED <<ustatus, outName, txn, fdOpen>>

\* Lines 332-333: the persistent getUserChannelName has returned, its status
\* is dropped; then the call of the volatile one.
getChannelInfo_persistentUserChannelName ==
  /\ call = "getChannelInfo"
  /\ pc = "puser"
  /\ upc = "ret"
  /\ pc' = "vuser"
  /\ upc' = "call"
  /\ persistent' = FALSE
  /\ queries' = Append(queries, Query("persistentUserName", ustatus, tstatus))
  /\ outInfo' = [outInfo EXCEPT !.persistentUserName = outName]
  /\ UNCHANGED apart
  /\ UNCHANGED <<call, status, channelIndex, dev>>
  /\ UNCHANGED <<ustatus, outName, txn, fdOpen>>

\* Line 333: the volatile getUserChannelName has returned, its status is
\* dropped.
getChannelInfo_volatileUserChannelName ==
  /\ call = "getChannelInfo"
  /\ pc = "vuser"
  /\ upc = "ret"
  /\ pc' = "field"
  /\ upc' = "idle"
  /\ queries' = Append(queries, Query("volatileUserName", ustatus, tstatus))
  /\ outInfo' = [outInfo EXCEPT !.volatileUserName = outName]
  /\ UNCHANGED apart
  /\ UNCHANGED <<call, status, channelIndex, dev>>
  /\ UNCHANGED <<persistent, ustatus, outName, txn, fdOpen>>

\* Lines 334-339: getFieldInfo (242-251), whose status is dropped: when the
\* ioctl fails finfo keeps its uninitialized contents, any field descriptor.
\* The attributes are derived from finfo either way.
getChannelInfo_getFieldInfo ==
  /\ call = "getChannelInfo"
  /\ pc = "field"
  /\ \E r \in IoctlRet, finfo \in FieldInfos :
     \E bitSize \in getFieldBitSize(finfo) :
       LET st == IF r < 0 THEN eOakStatusInternalError ELSE eOakStatusOK
       IN /\ queries' = Append(queries, Query("fieldInfo", st, NoStatus))
          /\ dev' = [dev EXCEPT !.fieldOk = (r = 0)]
          /\ outInfo' = [outInfo EXCEPT !.isSigned = isFieldSigned(finfo),
                                        !.bitSize = bitSize,
                                        !.unitExponent = getFieldExponent(finfo),
                                        !.unitCode = finfo.unit]
  /\ pc' = "unit"
  /\ UNCHANGED apart
  /\ UNCHANGED <<call, status, channelIndex>>
  /\ UNCHANGED <<userq, txn, fdOpen>>

\* Lines 340-341: getFieldUnit (303-319): getChannelName again, then the
\* unit is cut out of the name; its status is returned.
getChannelInfo_getFieldUnit ==
  /\ call = "getChannelInfo"
  /\ pc = "unit"
  /\ \E r \in IoctlRet, n \in ChannelNames :
       LET u == unitOfName(n)
           st == IF r < 0 THEN eOakStatusInvalidStringDescriptorIndex ELSE u.status
       IN /\ status' = st
          /\ queries' = Append(queries, Query("unit", st, NoStatus))
          /\ outInfo' = IF st = eOakStatusOK THEN [outInfo EXCEPT !.unit = u.unit]
                        ELSE outInfo
  /\ pc' = "done"
  /\ UNCHANGED apart
  /\ UNCHANGED <<call, channelIndex, dev>>
  /\ UNCHANGED <<userq, txn, fdOpen>>

\* ------------------------------------------------------------- the caller
Idle ==
  /\ call = "none"
  /\ pc = "idle"

\* A new call starts from cleared locals; the descriptor and the static
\* tempReport are what survives between calls.
Enter(fn, at, ch) ==
  /\ Idle
  /\ call' = fn
  /\ pc' = at
  /\ channelIndex' = ch
  /\ UNCHANGED <<status, queries, dev, outInfo, fdOpen>>
  /\ UNCHANGED apart

Call_openDevice ==
  /\ ~fdOpen
  /\ Enter("openDevice", "open", 0)
  /\ UNCHANGED <<userq, txn>>

Call_closeDevice ==
  /\ Enter("closeDevice", "close", 0)
  /\ UNCHANGED <<userq, txn>>

Call_getDeviceInfo ==
  /\ Enter("getDeviceInfo", "devinfo", 0)
  /\ UNCHANGED <<userq, txn>>

Call_getChannelInfo ==
  /\ \E ch \in ChannelIndexes : Enter("getChannelInfo", "name", ch)
  /\ UNCHANGED <<userq, txn>>

Call_getUserDeviceName ==
  /\ Enter("getUserDeviceName", "user", 0)
  /\ \E p \in BOOLEAN : persistent' = p
  /\ upc' = "call"
  /\ UNCHANGED <<ustatus, outName, txn>>

Call_getUserChannelName ==
  /\ \E ch \in ChannelIndexes : Enter("getUserChannelName", "user", ch)
  /\ \E p \in BOOLEAN : persistent' = p
  /\ upc' = "call"
  /\ UNCHANGED <<ustatus, outName, txn>>

\* A direct transaction on a command report of the caller's.
Call_sendReportAndWaitForReply ==
  /\ Enter("sendReportAndWaitForReply", "txn", 0)
  /\ \E p \in BOOLEAN : TxnBegin(UserNameCommand(p, 0))
  /\ UNCHANGED userq

\* The call has returned; the caller drops its locals.
Return ==
  /\ pc = "done"
  /\ call' = "none"
  /\ pc' = "idle"
  /\ status' = NoStatus
  /\ channelIndex' = 0
  /\ persistent' = FALSE
  /\ upc' = "idle"
  /\ ustatus' = NoStatus
  /\ outName' = <<>>
  /\ tpc' = "idle"
  /\ tstatus' = NoStatus
  /\ report' = ZeroReport
  /\ h' = NoHistory
  /\ queries' = <<>>
  /\ dev' = NoDev
  /\ outInfo' = NoInfo
  /\ UNCHANGED <<fdOpen, tempReport>>
  /\ UNCHANGED apart

\* Program start for the single caller: no descriptor open, the static
\* tempReport zero, no call running.
Quiet ==
  /\ fdOpen = FALSE
  /\ tempReport = ZeroReport
  /\ call = "none"
  /\ pc = "idle"
  /\ status = NoStatus
  /\ channelIndex = 0
  /\ persistent = FALSE
  /\ upc = "idle"
  /\ ustatus = NoStatus
  /\ outName = <<>>
  /\ tpc = "idle"
  /\ tstatus = NoStatus
  /\ report = ZeroReport
  /\ h = NoHistory
  /\ queries = <<>>
  /\ dev = NoDev
  /\ outInfo = NoInfo

Init ==
  /\ Quiet
  /\ fcall = NoCall
  /\ thr = NoThreads

\* The steps of the code: each returns, since every ioctl returns.
Step ==
  \/ WaitReady_HIDIOCGREPORT
  \/ WaitReady_HIDIOCGUSAGES
  \/ Send_HIDIOCSUSAGES
  \/ Send_HIDIOCSREPORT
  \/ WaitReply_HIDIOCGREPORT
  \/ WaitReply_HIDIOCGUSAGES
  \/ sendReportAndWaitForReply_return
  \/ getUserDeviceName_send
  \/ getUserDeviceName_return
  \/ getUserChannelName_send
  \/ getUserChannelName_return
  \/ openDevice_open
  \/ openDevice_HIDIOCINITREPORT
  \/ openDevice_HIDIOCGDEVINFO
  \/ closeDevice
  \/ getDeviceInfo_HIDIOCGDEVINFO
  \/ getDeviceInfo_getDeviceName
  \/ getDeviceInfo_persistentUserDeviceName
  \/ getDeviceInfo_volatileUserDeviceName
  \/ getDeviceInfo_getDeviceSerialNumber
  \/ getDeviceInfo_getNumberOfChannels
  \/ getChannelInfo_getChannelName
  \/ getChannelInfo_persistentUserChannelName
  \/ getChannelInfo_volatileUserChannelName
  \/ getChannelInfo_getFieldInfo
  \/ getChannelInfo_getFieldUnit

Next ==
  \/ Step
  \/ Call_openDevice
  \/ Call_closeDevice
  \/ Call_getDeviceInfo
  \/ Call_getChannelInfo
  \/ Call_getUserDeviceName
  \/ Call_getUserChannelName
  \/ Call_sendReportAndWaitForReply
  \/ Return

Spec == Init /\ [][Next]_vars

\* The code runs to its next device operation, and each device operation
\* returns: a started call keeps taking steps.
FairSpec == Spec /\ WF_vars(Step)

\* ===================================================================
\* Properties of sendReportAndWaitForReply
\* ===================================================================
InSend == tpc \in {"snd_SUSAGES", "snd_SREPORT"}
InWaitReply == tpc \in {"rpl_GREPORT", "rpl_GUSAGES"}
InWaitReady == tpc \in {"rdy_GREPORT", "rdy_GUSAGES"}
TxnReturned == tpc \in {"ret", "idle"}

\* C1: in a transaction the command is sent at most once, and only after a
\* feature-report read of the WaitReady loop succeeded with byte 0 = 0xFF;
\* no send precedes the first ready read and no WaitReply read precedes the
\* (successful) send.
C1_SendOnceAfterReady ==
  /\ h.sends <= 1
  /\ h.commits <= 1
  /\ (h.sends > 0 \/ h.commits > 0 \/ InSend) => (h.readyOk /\ h.rdyReads >= 1)
  /\ (h.rplReads > 0 \/ InWaitReply) => (h.sendOk /\ h.sends = 1 /\ h.commits = 1)

\* A transaction that was once told "not ready", then sent, and returned OK.
C1_Witness ==
  /\ tpc = "ret"
  /\ tstatus = eOakStatusOK
  /\ h.rdyReads >= 2
  /\ h.sends = 1
  /\ h.rplReads >= 1

\* C2: a failed feature-report read, in either polling loop, ends the
\* transaction at once with ReadError: the read is not retried and no
\* further device operation is issued in that transaction.
C2_FailedReadEnds ==
  h.readFailed =>
    /\ TxnReturned
    /\ tstatus = eOakStatusReadError
    /\ ~h.opsAfterFail

\* A read failed in the WaitReply loop after a reply that was not ready.
C2_Witness ==
  /\ tpc = "ret"
  /\ h.readFailed
  /\ h.rplReads >= 2
  /\ tstatus = eOakStatusReadError

\* C3: a failed send (setting the usage values or committing the report)
\* makes the transaction return WriteError without entering WaitReply: no
\* feature-report read is issued after it.
C3_FailedSendEnds ==
  h.sendFailed =>
    /\ TxnReturned
    /\ tstatus = eOakStatusWriteError
    /\ h.rplReads = 0
    /\ ~h.opsAfterFail

\* The commit of the report failed after the usage values were set.
C3_Witness ==
  /\ tpc = "ret"
  /\ h.sendFailed
  /\ h.sends = 1
  /\ h.commits = 1

\* C4: against a device whose every read succeeds with byte 0 = 0xFF and
\* whose send succeeds, the transaction returns OK after exactly one
\* WaitReady read, one send and one WaitReply read, and the caller's report
\* is the device's reply, byte for byte, with 0xFF as byte 0.
C4_AlwaysReadyDevice ==
  (tpc = "ret" /\ h.allReady) =>
    /\ tstatus = eOakStatusOK
    /\ h.rdyReads = 1
    /\ h.sends = 1
    /\ h.commits = 1
    /\ h.rplReads = 1
    /\ report[0] = 255
    /\ \A i \in 1..(kFeatureReportSize - 1) : report[i] = h.lastReply[i]

\* Such a transaction returned, with a reply that fills the whole report and
\* a readiness usage that came sign-extended.
C4_Witness ==
  /\ tpc = "ret"
  /\ h.allReady
  /\ h.lastReply[0] = -1
  /\ report[kFeatureReportSize - 1] = 67

\* C5: the transaction has no timeout or retry bound.  It returns in every
\* execution in which the device does not keep answering "not ready" for
\* ever; it returns only after a read failed, a send failed, or both polling
\* loops saw byte 0 = 0xFF; and a read that finds the device not ready is
\* always followed by another read of the same loop, however many reads
\* were made before.
C5_NoTimeout ==
  /\ ([]<>(h.lastRead # "notready")) =>
       ((InWaitReady \/ InSend \/ InWaitReply) ~> (tpc = "ret"))
  /\ [](tpc = "ret" => (h.readFailed \/ h.sendFailed \/ (h.readyOk /\ h.replyOk)))
  /\ [][(tpc = "rdy_GUSAGES" /\ h'.lastRead = "notready" /\ tpc' # tpc)
          => tpc' = "rdy_GREPORT"]_vars
  /\ [][(tpc = "rpl_GUSAGES" /\ h'.lastRead = "notready" /\ tpc' # tpc)
          => tpc' = "rpl_GREPORT"]_vars

\* Both loops are still polling after as many reads as the counters hold.
C5_Witness ==
  /\ tpc = "rpl_GREPORT"
  /\ h.rdyReads = MaxCount
  /\ h.rplReads = MaxCount
  /\ h.lastRead = "notready"

\* ===================================================================
\* Properties of the user-name queries and the aggregates
\* ===================================================================
\* C6: a user-name query whose request/reply transaction returned ReadError
\* or WriteError returns that same status.
C6_UserNamePropagatesError ==
  (upc = "ret" /\ tstatus \in {eOakStatusReadError, eOakStatusWriteError})
    => ustatus = tstatus

\* The sub-query failed: its function returned an error, or its
\* request/reply transaction did.
QueryFailed(e) == e.st # eOakStatusOK \/ e.txn \notin {eOakStatusOK, NoStatus}

QueryError(e) == IF e.st # eOakStatusOK THEN e.st ELSE e.txn

DeviceInfoOrder ==
  <<"descriptor", "deviceName", "persistentUserName", "volatileUserName",
    "serialNumber", "numberOfChannels">>

\* C7: getDeviceInfo issues its sub-queries in the order descriptor, device
\* name, persistent user name, volatile user name, serial number, channel
\* count; the first sub-query that fails (a failed user-name transaction
\* included) is the last one issued and its error is returned.
C7_DeviceInfoShortCircuit ==
  call = "getDeviceInfo" =>
    /\ Len(queries) <= Len(DeviceInfoOrder)
    /\ \A i \in 1..Len(queries) :
         /\ queries[i].q = DeviceInfoOrder[i]
         /\ QueryFailed(queries[i]) =>
              /\ i = Len(queries)
              /\ pc = "done"
              /\ status = QueryError(queries[i])

ChannelInfoOrder ==
  <<"channelName", "persistentUserName", "volatileUserName", "fieldInfo", "unit">>

\* C8: in getChannelInfo a channel-name failure is returned before any
\* transaction or field query is issued; whatever the two user-name queries
\* do, all later sub-queries run and the returned status is the unit-name
\* query's, errors included.
C8_ChannelInfoStrictness ==
  call = "getChannelInfo" =>
    /\ \A i \in 1..Len(queries) : queries[i].q = ChannelInfoOrder[i]
    /\ (Len(queries) >= 1 /\ queries[1].st # eOakStatusOK) =>
         /\ pc = "done"
         /\ status = queries[1].st
         /\ Len(queries) = 1
         /\ tpc = "idle"
         /\ h = NoHistory
    /\ (pc = "done" /\ queries[1].st = eOakStatusOK) =>
         /\ Len(queries) = Len(ChannelInfoOrder)
         /\ status = queries[Len(queries)].st

\* Both user-name transactions failed, and the aggregate went on to return
\* the error of the unit-name query.
C8_Witness ==
  /\ call = "getChannelInfo"
  /\ pc = "done"
  /\ Len(queries) = Len(ChannelInfoOrder)
  /\ queries[2].txn = eOakStatusReadError
  /\ queries[3].txn = eOakStatusWriteError
  /\ status = eOakStatusInternalError

\* C9: when getFieldInfo fails for the channel, getChannelInfo returns a
\* status that is not OK.
C9_FieldInfoFailureReturned ==
  (call = "getChannelInfo" /\ pc = "done" /\ Len(queries) >= 4
     /\ queries[4].st # eOakStatusOK)
    => status # eOakStatusOK

\* C10: openDevice returns OK only if the open, the report initialization
\* and the descriptor query succeeded and the vendor is the Toradex one; a
\* failed open gives ErrorOpeningFile, a failed report initialization or
\* descriptor query InternalError, a vendor mismatch InvalidDeviceType, and
\* the descriptor is closed whenever the status is not OK.
C10_OpenDeviceOutcome ==
  (call = "openDevice" /\ pc = "done") =>
    /\ status = eOakStatusOK =>
         (dev.opened /\ dev.initOk /\ dev.devinfoOk /\ dev.vendor = kToradexVendorID)
    /\ ~dev.opened => status = eOakStatusErrorOpeningFile
    /\ (dev.opened /\ ~dev.initOk) => status = eOakStatusInternalError
    /\ (dev.opened /\ dev.initOk /\ ~dev.devinfoOk) => status = eOakStatusInternalError
    /\ (dev.opened /\ dev.initOk /\ dev.devinfoOk /\ dev.vendor # kToradexVendorID)
         => status = eOakStatusInvalidDeviceType
    /\ status # eOakStatusOK => ~fdOpen

\* ===================================================================
\* Two threads, each in sendReportAndWaitForReply on its own device handle
\* and its own report, sharing the function's static tempReport.  A step is
\* one ioctl, one copy of usage values into a report buffer, or one loop
\* test on a report buffer.
\* ===================================================================
Threads == {1, 2}

\* The usage values the device of thread t can deliver: ready or busy, with
\* a payload that names the device.
ThreadValues(t) == {MkValues(b0, <<t>>) : b0 \in {255, 0}}

ThreadEntry(t) ==
  [pc |-> "rdy_GREPORT", status |-> NoStatus, uref |-> ZeroReport,
   report |-> UserNameCommand(TRUE, t), ownReady |-> FALSE, sends |-> 0]

ParInit ==
  /\ Quiet
  /\ fcall = NoCall
  /\ thr = [t \in Threads |-> ThreadEntry(t)]

\* Thread t moves on; the other thread and the single caller stay.
ThreadStep(t, new, temp) ==
  /\ thr' = [thr EXCEPT ![t] = new]
  /\ tempReport' = temp
  /\ UNCHANGED <<single, fcall>>

\* readFeatureReport, line 411, called at line 456.
T_WaitReady_HIDIOCGREPORT(t) ==
  /\ thr[t].pc = "rdy_GREPORT"
  /\ \E r \in {0, -1} :
       ThreadStep(t, IF r = -1
                     THEN [thr[t] EXCEPT !.pc = "ret", !.status = eOakStatusReadError]
                     ELSE [thr[t] EXCEPT !.pc = "rdy_GUSAGES"],
                  tempReport)

\* readFeatureReport, line 418: the device's usage values arrive in uref.
T_WaitReady_HIDIOCGUSAGES(t) ==
  /\ thr[t].pc = "rdy_GUSAGES"
  /\ \E r \in {0, -1}, v \in ThreadValues(t) :
       ThreadStep(t, IF r = -1
                     THEN [thr[t] EXCEPT !.pc = "ret", !.status = eOakStatusReadError]
                     ELSE [thr[t] EXCEPT !.pc = "rdy_copy", !.uref = v,
                                         !.ownReady = @ \/ (ToByte(v[0]) = 255)],
                  tempReport)

\* readFeatureReport, lines 419-421: the copy into the static tempReport.
T_WaitReady_copy(t) ==
  /\ thr[t].pc = "rdy_copy"
  /\ ThreadStep(t, [thr[t] EXCEPT !.pc = "rdy_test", !.status = eOakStatusOK],
                FromUsages(thr[t].uref))

\* Lines 457-458: the loop test reads the static tempReport.
T_WaitReady_test(t) ==
  /\ thr[t].pc = "rdy_test"
  /\ LET nxt == PollNext(thr[t].status, tempReport, "rdy_GREPORT", "snd_SUSAGES")
     IN ThreadStep(t, [thr[t] EXCEPT !.pc = nxt.pc, !.status = nxt.status], tempReport)

\* sendFeatureReport, lines 387-389, called at line 460.
T_Send_HIDIOCSUSAGES(t) ==
  /\ thr[t].pc = "snd_SUSAGES"
  /\ \E r \in {0, -1} :
       LET st == IF r = -1 THEN eOakStatusWriteError ELSE eOakStatusOK
           nxt == SendNext(st, "snd_SREPORT")
       IN ThreadStep(t, [thr[t] EXCEPT !.pc = nxt.pc, !.status = nxt.status,
                                       !.sends = Inc(@)],
                     tempReport)

\* sendFeatureReport, line 395.
T_Send_HIDIOCSREPORT(t) ==
  /\ thr[t].pc = "snd_SREPORT"
  /\ \E r \in {0, -1} :
       LET st == IF r = -1 THEN eOakStatusWriteError ELSE eOakStatusOK
           nxt == SendNext(st, "rpl_GREPORT")
       IN ThreadStep(t, [thr[t] EXCEPT !.pc = nxt.pc, !.status = nxt.status],
                     tempReport)

\* readFeatureReport, line 411, called at line 466.
T_WaitReply_HIDIOCGREPORT(t) ==
  /\ thr[t].pc = "rpl_GREPORT"
  /\ \E r \in {0, -1} :
       ThreadStep(t, IF r = -1
                     THEN [thr[t] EXCEPT !.pc = "ret", !.status = eOakStatusReadError]
                     ELSE [thr[t] EXCEPT !.pc = "rpl_GUSAGES"],
                  tempReport)

\* readFeatureReport, line 418.
T_WaitReply_HIDIOCGUSAGES(t) ==
  /\ thr[t].pc = "rpl_GUSAGES"
  /\ \E r \in {0, -1}, v \in ThreadValues(t) :
       ThreadStep(t, IF r = -1
                     THEN [thr[t] EXCEPT !.pc = "ret", !.status = eOakStatusReadError]
                     ELSE [thr[t] EXCEPT !.pc = "rpl_copy", !.uref = v],
                  tempReport)

\* readFeatureReport, lines 419-421: the copy into the thread's own report.
T_WaitReply_copy(t) ==
  /\ thr[t].pc = "rpl_copy"
  /\ ThreadStep(t, [thr[t] EXCEPT !.pc = "rpl_test", !.status = eOakStatusOK,
                                  !.report = FromUsages(thr[t].uref)],
                tempReport)

\* Lines 467-469: the loop test reads the thread's own report.
T_WaitReply_test(t) ==
  /\ thr[t].pc = "rpl_test"
  /\ LET nxt == PollNext(thr[t].status, thr[t].report, "rpl_GREPORT", "ret")
     IN ThreadStep(t, [thr[t] EXCEPT !.pc = nxt.pc, !.status = nxt.status], tempReport)

ParNext ==
  \/ \E t \in Threads : T_WaitReady_HIDIOCGREPORT(t)
  \/ \E t \in Threads : T_WaitReady_HIDIOCGUSAGES(t)
  \/ \E t \in Threads : T_WaitReady_copy(t)
  \/ \E t \in Threads : T_WaitReady_test(t)
  \/ \E t \in Threads : T_Send_HIDIOCSUSAGES(t)
  \/ \E t \in Threads : T_Send_HIDIOCSREPORT(t)
  \/ \E t \in Threads : T_WaitReply_HIDIOCGREPORT(t)
  \/ \E t \in Threads : T_WaitReply_HIDIOCGUSAGES(t)
  \/ \E t \in Threads : T_WaitReply_copy(t)
  \/ \E t \in Threads : T_WaitReply_test(t)

ParSpec == ParInit /\ [][ParNext]_vars

\* C11: no mutable state is shared between two transactions on two device
\* handles: however their device operations and buffer accesses interleave,
\* a transaction sends its command only after its own device reported
\* byte 0 = 0xFF.
C11_SendAfterOwnReady ==
  \A t \in DOMAIN thr :
    (thr[t].pc \in {"snd_SUSAGES", "snd_SREPORT"} \/ thr[t].sends > 0)
      => thr[t].ownReady

\* ===================================================================
\* The report codec, the metadata decoder and the interrupt reader, each
\* applied on its own to inputs drawn from bounded sets.
\* ===================================================================
\* A text of L bytes, all different and none NUL.
Text(L) == [i \in 1..L |-> 64 + i]

\* The std::string arguments: texts of every length up to MaxStrLen, and
\* strings that hold a NUL byte.
Texts == {Text(L) : L \in 0..MaxStrLen} \cup {<<65, 0, 66>>, <<0>>}

\* A report without any NUL byte.
FilledReport == [i \in 0..(kFeatureReportSize - 1) |-> 200 + i]

\* Contents a report buffer can have when a text is put into it.
PriorReports == {ZeroReport, UserNameCommand(TRUE, 1), FilledReport}

\* Contents a report can have when its string is taken.
ReceivedReports ==
  {MkValues(255, str) : str \in Texts} \cup PriorReports
    \cup {FromUsages(v) : v \in DeviceValues}

\* putStringInReport writing at offset 4.
putStringInReport_Offset4(rep, theString) ==
  LET str == IF Len(theString) > 20 THEN SubSeq(theString, 1, 20) ELSE theString
  IN [status |-> eOakStatusOK,
      report |-> [i \in 0..(kFeatureReportSize - 1) |->
                    IF i >= 4 /\ i < 4 + Len(str) THEN str[i - 3] ELSE rep[i]]]

\* putStringInReport without the clamp to 20 characters.
putStringInReport_NoClamp(rep, theString) ==
  [status |-> eOakStatusOK,
   report |-> [i \in 0..(kFeatureReportSize - 1) |->
                 IF i >= 5 /\ i < 5 + Len(theString) THEN theString[i - 4] ELSE rep[i]]]

\* putStringInReport, lines 137-144: the string, clamped to 20 characters, is
\* copied to offset 5 (memcpy of str.size() bytes, no terminator).
putStringInReport(rep, theString) ==
  LET str == IF Len(theString) > 20 THEN SubSeq(theString, 1, 20) ELSE theString
  IN [status |-> eOakStatusOK,
      report |-> [i \in 0..(kFeatureReportSize - 1) |->
                    IF i >= 5 /\ i < 5 + Len(str) THEN str[i - 4] ELSE rep[i]]]

\* The simulated device of the round trip: it answers with byte 0 = 0xFF and
\* the outbound bytes 5..24 as inbound bytes 1..20; the rest of the reply is
\* whatever the outbound report held there.
DeviceEcho(out) ==
  [i \in 0..(kFeatureReportSize - 1) |->
     IF i = 0 THEN 255
     ELSE IF i >= 1 /\ i <= 20 THEN out[i + 4]
     ELSE out[i]]

CodecCalls ==
  [fn : {"putStringInReport", "echoRoundTrip"}, pc : {"put"},
   theString : Texts, report0 : PriorReports, report : {ZeroReport},
   outString : {<<>>}, status : {NoStatus}]
  \cup
  [fn : {"getStringFromReport"}, pc : {"get"},
   theString : {<<>>}, report0 : ReceivedReports, report : {ZeroReport},
   outString : {<<>>}, status : {NoStatus}]

\* putStringInReport(report, theString) on the drawn buffer and text.
F_putStringInReport ==
  /\ fcall.fn \in {"putStringInReport", "echoRoundTrip"}
  /\ fcall.pc = "put"
  /\ LET e == putStringInReport(fcall.report0, fcall.theString)
     IN fcall' = [fcall EXCEPT !.report = e.report, !.status = e.status,
                               !.pc = IF fcall.fn = "echoRoundTrip" THEN "echo" ELSE "done"]
  /\ UNCHANGED <<single, tempReport, thr>>

\* The simulated device answers the encoded report.
F_deviceEcho ==
  /\ fcall.fn = "echoRoundTrip"
  /\ fcall.pc = "echo"
  /\ fcall' = [fcall EXCEPT !.report = DeviceEcho(fcall.report), !.pc = "get"]
  /\ UNCHANGED <<single, tempReport, thr>>

\* getStringFromReport(report, outString) on the drawn report, or on the
\* echoed one.
F_getStringFromReport ==
  /\ fcall.fn \in {"getStringFromReport", "echoRoundTrip"}
  /\ fcall.pc = "get"
  /\ LET g == getStringFromReport(IF fcall.fn = "echoRoundTrip" THEN fcall.report
                                  ELSE fcall.report0)
     IN fcall' = [fcall EXCEPT !.report = g.report, !.outString = g.outString,
                               !.status = g.status, !.pc = "done"]
  /\ UNCHANGED <<single, tempReport, thr>>

\* The physical bounds drawn for getFieldBitSize: the ends of the int range
\* and the values around the three thresholds.
PhysicalBounds == {-2147483647 - 1, -1, 0, 255, 256, 65535, 65536, 2147483647}

\* The raw unit exponents: the 4-bit values.
RawExponents == 0..15

DecoderCalls ==
  [fn : {"getFieldBitSize"}, pc : {"call"},
   finfo : [physical_minimum : PhysicalBounds, physical_maximum : PhysicalBounds,
            unit_exponent : {0}, unit : {0}],
   value : {0}]
  \cup
  [fn : {"getFieldExponent"}, pc : {"call"},
   finfo : [physical_minimum : {0}, physical_maximum : {0},
            unit_exponent : RawExponents, unit : {0}],
   value : {0}]

\* getFieldBitSize(finfo) on the drawn field descriptor.
F_getFieldBitSize ==
  /\ fcall.fn = "getFieldBitSize"
  /\ fcall.pc = "call"
  /\ \E v \in getFieldBitSize(fcall.finfo) :
       fcall' = [fcall EXCEPT !.value = v, !.pc = "done"]
  /\ UNCHANGED <<single, tempReport, thr>>

\* getFieldExponent(finfo) on the drawn field descriptor.
F_getFieldExponent ==
  /\ fcall.fn = "getFieldExponent"
  /\ fcall.pc = "call"
  /\ fcall' = [fcall EXCEPT !.value = getFieldExponent(fcall.finfo), !.pc = "done"]
  /\ UNCHANGED <<single, tempReport, thr>>

\* The channel names drawn for getFieldUnit: every name of at most
\* MaxNameLen characters over a letter and the two brackets.
UnitNames == UNION {[1..n -> {"T", "[", "]"}] : n \in 0..MaxNameLen}

\* The out-parameter outFieldUnit as the caller passes it.
PriorUnit == <<"?">>

UnitCalls ==
  [fn : {"getFieldUnit"}, pc : {"call"}, ret : {0, -1}, name : UnitNames,
   outFieldUnit : {PriorUnit}, status : {NoStatus}]

\* getFieldUnit (303-319) where the HIDIOCGSTRING ioctl of getChannelName
\* returned ret and, when it succeeded, the drawn name.
F_getFieldUnit ==
  /\ fcall.fn = "getFieldUnit"
  /\ fcall.pc = "call"
  /\ LET u == unitOfName(fcall.name)
         st == IF fcall.ret < 0 THEN eOakStatusInvalidStringDescriptorIndex
               ELSE u.status
     IN fcall' = [fcall EXCEPT !.status = st,
                               !.outFieldUnit = IF st = eOakStatusOK THEN u.unit ELSE @,
                               !.pc = "done"]
  /\ UNCHANGED <<single, tempReport, thr>>

\* sizeof(ev[0]) of lines 364-365: a hiddev_event is an unsigned usage code
\* and a signed value, four bytes each.
kEventSize == 8

\* What read() can return: an error, or a byte count up to MaxEvents whole
\* events and a part of one more.
ReadReturns == (-1)..(kEventSize * MaxEvents + kEventSize - 1)

\* The values of the events the read stored in ev.
EventValues == [1..MaxEvents -> {-3, 7}]

\* The vector the caller passes: any size up to MaxEvents.
PriorValues == {[i \in 1..n |-> 9] : n \in 0..MaxEvents}

\* std::vector<int>::resize: the first elements are kept, new ones are 0.
Resize(v, k) == [i \in 1..k |-> IF i <= Len(v) THEN v[i] ELSE 0]

\* readInterruptReport without its resize: the values are copied to the
\* elements the vector has.
readInterruptReport_NoResize(rd, ev, out) ==
  IF rd < kEventSize
  THEN [status |-> eOakStatusReadError, outReadValues |-> out, reads |-> 1,
        resized |-> FALSE]
  ELSE LET kCount == rd \div kEventSize
       IN [status |-> eOakStatusOK,
           outReadValues |-> [i \in 1..Len(out) |-> IF i <= kCount THEN ev[i] ELSE out[i]],
           reads |-> 1, resized |-> FALSE]

\* readInterruptReport, lines 359-371, where the one read() of line 363
\* returned rd and stored the events ev.
readInterruptReport(rd, ev, out) ==
  IF rd < kEventSize
  THEN [status |-> eOakStatusReadError, outReadValues |-> out, reads |-> 1,
        resized |-> FALSE]
  ELSE LET kCount == rd \div kEventSize
           sized == IF kCount # Len(out) THEN Resize(out, kCount) ELSE out
       IN [status |-> eOakStatusOK,
           outReadValues |-> [i \in 1..Len(sized) |-> IF i <= kCount THEN ev[i] ELSE sized[i]],
           reads |-> 1, resized |-> kCount # Len(out)]

InterruptCalls ==
  [fn : {"readInterruptReport"}, pc : {"call"}, rd : ReadReturns, ev : EventValues,
   outReadValues0 : PriorValues, outReadValues : {<<>>}, reads : {0},
   resized : {FALSE}, status : {NoStatus}]

\* readInterruptReport(deviceHandle, outReadValues) on the drawn read.
F_readInterruptReport ==
  /\ fcall.fn = "readInterruptReport"
  /\ fcall.pc = "call"
  /\ LET r == readInterruptReport(fcall.rd, fcall.ev, fcall.outReadValues0)
     IN fcall' = [fcall EXCEPT !.outReadValues = r.outReadValues, !.reads = r.reads,
                               !.resized = r.resized, !.status = r.status,
                               !.pc = "done"]
  /\ UNCHANGED <<single, tempReport, thr>>

\* ------------------------------------------- one function call at a time
FunctionCalls == CodecCalls \cup DecoderCalls \cup UnitCalls \cup InterruptCalls

FInit == Quiet /\ thr = NoThreads /\ fcall \in FunctionCalls

FNext ==
  \/ F_putStringInReport
  \/ F_deviceEcho
  \/ F_getStringFromReport
  \/ F_getFieldBitSize
  \/ F_getFieldExponent
  \/ F_getFieldUnit
  \/ F_readInterruptReport

FSpec == FInit /\ [][FNext]_vars

\* ===================================================================
\* Properties of the codec, the decoder and the interrupt reader
\* ===================================================================
\* C12: putStringInReport with a text of length L writes the first
\* min(L, 20) bytes of the text at offsets 5 .. 5+min(L,20)-1, so never
\* beyond byte 24, leaves every other byte of the report as it was, and
\* returns OK.
C12_PutStringFrame ==
  (fcall.fn = "putStringInReport" /\ fcall.pc = "done") =>
    LET m == IF Len(fcall.theString) < 20 THEN Len(fcall.theString) ELSE 20
    IN /\ fcall.status = eOakStatusOK
       /\ \A i \in 0..(kFeatureReportSize - 1) :
            fcall.report[i] = IF i >= 5 /\ i <= 4 + m THEN fcall.theString[i - 4]
                              ELSE fcall.report0[i]

\* A text longer than 20 bytes was put into a report without a NUL byte.
C12_Witness ==
  /\ fcall.fn = "putStringInReport"
  /\ fcall.pc = "done"
  /\ Len(fcall.theString) > 20
  /\ fcall.report0 = FilledReport

\* C13 as stated: a string of at most 20 bytes, put into a report of any
\* prior content, echoed by the device and taken from the reply, comes back
\* as it was.
C13_RoundTripAnyBuffer ==
  (fcall.fn = "echoRoundTrip" /\ fcall.pc = "done" /\ Len(fcall.theString) <= 20)
    => fcall.outString = fcall.theString

\* C13: a string of at most 20 bytes that holds no NUL byte comes back as it
\* was from the round trip when it is 20 bytes long or the outgoing report
\* held a NUL byte right after the place of the text (offset 5 + length).
C13_RoundTripTerminated ==
  ( /\ fcall.fn = "echoRoundTrip"
    /\ fcall.pc = "done"
    /\ Len(fcall.theString) <= 20
    /\ \A i \in 1..Len(fcall.theString) : fcall.theString[i] # 0
    /\ (Len(fcall.theString) = 20 \/ fcall.report0[5 + Len(fcall.theString)] = 0) )
    => (fcall.outString = fcall.theString /\ fcall.status = eOakStatusOK)

\* A text shorter than 20 bytes made the round trip through a command report
\* whose payload bytes were zero.
C13_Witness ==
  /\ fcall.fn = "echoRoundTrip"
  /\ fcall.pc = "done"
  /\ Len(fcall.theString) \in 1..19
  /\ fcall.report0 = UserNameCommand(TRUE, 1)
  /\ fcall.outString = fcall.theString

\* C14: getStringFromReport returns OK and yields the bytes from offset 1 up
\* to the first NUL, byte 21 being forced to NUL first: at most 20 bytes,
\* empty when byte 1 is NUL, and byte 21 is the only byte of the report it
\* changes.
C14_GetStringBounded ==
  (fcall.fn = "getStringFromReport" /\ fcall.pc = "done") =>
    LET n == Len(fcall.outString)
    IN /\ fcall.status = eOakStatusOK
       /\ n <= 20
       /\ \A i \in 1..n : fcall.outString[i] = fcall.report0[i] /\ fcall.outString[i] # 0
       /\ (n < 20 => fcall.report0[n + 1] = 0)
       /\ (fcall.report0[1] = 0 => fcall.outString = <<>>)
       /\ fcall.report = [fcall.report0 EXCEPT ![21] = 0]

\* The string was taken from a report without a NUL byte.
C14_Witness ==
  /\ fcall.fn = "getStringFromReport"
  /\ fcall.pc = "done"
  /\ fcall.report0 = FilledReport
  /\ Len(fcall.outString) = 20

\* C15 as stated: for every pair of bounds with physical_maximum at least
\* physical_minimum, getFieldBitSize returns the smallest width of 8, 16, 32,
\* 64 that covers the mathematical difference of the bounds.
C15_BitSizeCoversRange ==
  ( /\ fcall.fn = "getFieldBitSize"
    /\ fcall.pc = "done"
    /\ fcall.finfo.physical_maximum >= fcall.finfo.physical_minimum )
    => fcall.value =
         BitSizeOfRange(Diff(fcall.finfo.physical_maximum, fcall.finfo.physical_minimum))

\* C16: getFieldExponent maps a raw exponent r of 0..15 to r when r < 8 and
\* to r - 16 when r >= 8; the result lies in -8..7.
C16_ExponentNibble ==
  (fcall.fn = "getFieldExponent" /\ fcall.pc = "done") =>
    /\ fcall.value = IF fcall.finfo.unit_exponent < 8 THEN fcall.finfo.unit_exponent
                     ELSE fcall.finfo.unit_exponent - 16
    /\ fcall.value \in (-8)..7

\* The raw exponent 8 was decoded as -8.
C16_Witness ==
  /\ fcall.fn = "getFieldExponent"
  /\ fcall.pc = "done"
  /\ fcall.finfo.unit_exponent = 8
  /\ fcall.value = -8

\* C17 as stated: with the channel name obtained, getFieldUnit returns OK and
\* the substring between the last '[' and the last ']' whenever the last ']'
\* lies after the last '[', an empty substring included, and InternalError
\* otherwise.
C17_UnitBetweenBrackets ==
  (fcall.fn = "getFieldUnit" /\ fcall.pc = "done" /\ fcall.ret = 0) =>
    LET open == rfind(fcall.name, "[")
        close == rfind(fcall.name, "]")
    IN IF open # -1 /\ close # -1 /\ close > open
       THEN /\ fcall.status = eOakStatusOK
            /\ fcall.outFieldUnit = SubSeq(fcall.name, open + 2, close)
       ELSE fcall.status = eOakStatusInternalError

\* C17: with the channel name obtained, getFieldUnit returns OK and the
\* substring between the last '[' and the last ']' when at least one
\* character lies between them; it returns InternalError when a bracket is
\* absent, the last ']' precedes the last '[', or the last ']' directly
\* follows the last '['.
C17_UnitNonEmpty ==
  (fcall.fn = "getFieldUnit" /\ fcall.pc = "done" /\ fcall.ret = 0) =>
    LET open == rfind(fcall.name, "[")
        close == rfind(fcall.name, "]")
    IN IF open # -1 /\ close # -1 /\ close > open + 1
       THEN /\ fcall.status = eOakStatusOK
            /\ fcall.outFieldUnit = SubSeq(fcall.name, open + 2, close)
       ELSE fcall.status = eOakStatusInternalError

\* A name whose last ']' directly follows its last '[' was refused.
C17_Witness ==
  /\ fcall.fn = "getFieldUnit"
  /\ fcall.pc = "done"
  /\ fcall.ret = 0
  /\ fcall.name = <<"T", "[", "]">>
  /\ fcall.status = eOakStatusInternalError

\* C18: readInterruptReport reads once; with fewer bytes than one event, a
\* read error included, it returns ReadError and leaves the vector as it
\* was; otherwise, with k whole events, it resizes the vector exactly when
\* its length differs from k, the vector then has length k and holds the
\* values of the events in order, and it returns OK.
C18_InterruptValues ==
  (fcall.fn = "readInterruptReport" /\ fcall.pc = "done") =>
    /\ fcall.reads = 1
    /\ IF fcall.rd < kEventSize
       THEN /\ fcall.status = eOakStatusReadError
            /\ fcall.outReadValues = fcall.outReadValues0
            /\ ~fcall.resized
       ELSE LET k == fcall.rd \div kEventSize
            IN /\ fcall.status = eOakStatusOK
               /\ fcall.resized = (Len(fcall.outReadValues0) # k)
               /\ Len(fcall.outReadValues) = k
               /\ \A i \in 1..k : fcall.outReadValues[i] = fcall.ev[i]

\* Two whole events and a part of a third were read into a vector of three.
C18_Witness ==
  /\ fcall.fn = "readInterruptReport"
  /\ fcall.pc = "done"
  /\ fcall.rd = 2 * kEventSize + 3
  /\ Len(fcall.outReadValues0) = 3
  /\ fcall.resized
  /\ fcall.outReadValues = <<fcall.ev[1], fcall.ev[2]>>

\* ===================================================================
\* The caller's report across a transaction
\* ===================================================================
\* C19: sendReportAndWaitForReply changes the caller's report only by the
\* successful reads of its WaitReply loop: in WaitReady and Send, and when it
\* fails there, the report is the caller's command; when it fails in
\* WaitReply the report is the command (no WaitReply read succeeded) or the
\* whole of the last report read, which was not ready; on OK it is the last
\* report read and its byte 0 is 0xFF.
C19_ReportFrame ==
  /\ (InWaitReady \/ InSend) => report = h.command
  /\ (tpc = "ret" /\ tstatus # eOakStatusOK /\ h.rplReads = 0) => report = h.command
  /\ (tpc = "ret" /\ tstatus # eOakStatusOK /\ h.rplReads > 0) =>
       IF h.replied
       THEN report = FromUsages(h.lastReply) /\ report[0] # 255
       ELSE report = h.command
  /\ (tpc = "ret" /\ tstatus = eOakStatusOK) =>
       (h.replied /\ report = FromUsages(h.lastReply) /\ report[0] = 255)

\* A transaction that failed in WaitReply after a reply that was not ready:
\* the caller's report holds that reply, not the command.
C19_Witness ==
  /\ tpc = "ret"
  /\ tstatus = eOakStatusReadError
  /\ h.replied
  /\ h.rdyReads > 1
  /\ report # h.command
  /\ report = FromUsages(h.lastReply)

====
